---------------------------- MODULE Spec2Model ----------------------------
(***************************************************************************)
(* A model of redundans.py: the library classifier (get_orientation,       *)
(* get_libraries), the read limit (get_read_limit), the config builder      *)
(* of the gap closing (prepare_gapcloser), and the staged pipeline           *)
(* controller (redundants, run_scaffolding, run_gapclosing) with the         *)
(* artifact chain kept by symlink and the main block around it.              *)
(*                                                                          *)
(* Insert sizes (median, mean, standard deviation) are real numbers in the  *)
(* program; here they are fixed-point numbers counted in 1/Unit, so that    *)
(* int(ismean) truncates.  A stored stdfrac is the rational <<num, den>>.   *)
(***************************************************************************)
EXTENDS Integers, Sequences, FiniteSets, TLC

VARIABLES
    pc,           \* position of the running function
    pairs,        \* get_orientation: the 4-count vector (FF, FR, RF, RR)
    orientation,  \* get_orientation: the value returned
    warned,       \* get_orientation: whether the poor-quality warning was written
    libdata,      \* get_libraries: what fastq2insert_size returned
    todo,         \* get_libraries: the sorted datasets the loop has not consumed yet
    libraries,    \* get_libraries / redundants: the library sets
    varwarn,      \* get_libraries: datasets that got the variable-insert warning
    opts,         \* redundants: reduction, scaffolding, gapclosing, iters, and
                  \*   whether outdir was there when the run started
    outdir,       \* whether the output directory exists
    fs,           \* the files and symbolic links: path -> [link, to]
    i,            \* run_scaffolding / run_gapclosing: index of the library set
    j,            \* run_scaffolding / run_gapclosing: index of the iteration
    pout,         \* run_scaffolding / run_gapclosing: the current assembly
    curset,       \* the library set unpacked at the top of the loop body
    called,       \* the number of library sets run_scaffolding was called with
    calls,        \* the invocations of collaborators and external programs so far
    exitCode,     \* the exit code, -1 while the program runs
    reported,     \* the files whose statistics were reported
    scaffolded,   \* run_scaffolding: the datasets passed to the scaffolder in
                  \*   the rounds of the library sets it is through with
    tail,         \* what the main block wrote after main() was left
    gaplibs,      \* prepare_gapcloser: libs, the libraries of one set
    verbose,      \* prepare_gapcloser: the verbose flag
    rank,         \* prepare_gapcloser: the libraries consumed so far
    config,       \* prepare_gapcloser: the library blocks appended to config
    diag,         \* prepare_gapcloser: the ranks a skip diagnostic was written for
    readLimit,    \* get_read_limit: the read-fraction limit, in tenths
    fastaSize,    \* get_read_limit: the size of the assembly
    limit,        \* get_read_limit / get_libraries: the read limit
    getlibs,      \* the number of get_libraries calls so far
    caps          \* the caps fastq2insert_size received, call after call

classVars == <<pairs, orientation, warned, libdata, todo, varwarn>>
histVars == <<scaffolded, tail>>
pipeVars == <<opts, outdir, fs, i, j, pout, curset, called, calls, exitCode, reported,
              scaffolded, tail>>
unitVars == <<gaplibs, verbose, rank, config, diag, readLimit, fastaSize, limit, getlibs, caps>>
vars == <<pc, libraries, classVars, pipeVars, unitVars>>

(***************************************************************************)
(* Bounds of the model.                                                     *)
(***************************************************************************)
\* insert sizes are counted in 1/Unit
Unit == 2
\* the largest pair count of one orientation in the enumerated count vectors
MaxCount == 9
\* the largest number of datasets the statistics collaborator reports
MaxDatasets == 3
\* the number of paired datasets (fastq pairs) a pipeline run is given
NumDatasets == 2
\* the largest --iters a pipeline run is given
MaxIters == 2
\* an --iters of two digits, given to a run that scaffolds only
ManyIters == 10
\* the largest read-fraction limit (--limit), in tenths
MaxTenths == 10

(***************************************************************************)
(* get_orientation                                                          *)
(***************************************************************************)
orientations == <<"FF", "FR", "RF", "RR">>

RECURSIVE SumSeq(_)
SumSeq(s) == IF s = <<>> THEN 0 ELSE Head(s) + SumSeq(Tail(s))

\* max(pairs)
MaxOf(s) == CHOOSE m \in {s[k] : k \in DOMAIN s} : \A k \in DOMAIN s : s[k] <= m

\* without the first match: the last position holding v
IndexOfLast(s, v) == CHOOSE k \in DOMAIN s : s[k] = v /\ \A l \in DOMAIN s : s[l] = v => l <= k

\* pairs.index(maxc): the first position holding v
IndexOf(s, v) == CHOOSE k \in DOMAIN s : s[k] = v /\ \A l \in DOMAIN s : s[l] = v => k <= l

\* the orientation get_orientation returns
MajorOrientation(p) == orientations[IndexOf(p, MaxOf(p))]

\* a threshold of 90 applied to the wrong quantity: warn unless every pair agrees
PoorQualityStrict(p) == MaxOf(p) < SumSeq(p)

\* maxcfrac = 100.0 * maxc / sum(pairs); maxcfrac < 90
PoorQuality(p) == 100 * MaxOf(p) < 90 * SumSeq(p)

(***************************************************************************)
(* get_libraries                                                            *)
(***************************************************************************)
\* int(x) of a non-negative fixed-point number
IntOf(x) == x \div Unit

\* sorted(libdata, key=lambda x: x[3]): a stable sort by mean insert.
\* InsertSorted puts d behind every dataset whose mean is not larger.
RECURSIVE InsertSorted(_, _)
InsertSorted(d, s) ==
    IF s = <<>> THEN <<d>>
    ELSE IF Head(s).ismean <= d.ismean THEN <<Head(s)>> \o InsertSorted(d, Tail(s))
    ELSE <<d>> \o s

RECURSIVE SortedByMean(_)
SortedByMean(s) ==
    IF s = <<>> THEN <<>>
    ELSE InsertSorted(s[Len(s)], SortedByMean(SubSeq(s, 1, Len(s) - 1)))

\* no sort: the datasets in input order
Unsorted(s) == s

\* the order in which the loop of get_libraries consumes libdata
ConsumeOrder(s) == SortedByMean(s)

EmptySet == [libnames |-> <<>>, libFs |-> <<>>, libRs |-> <<>>,
             orients |-> <<>>, libIS |-> <<>>, libISStDev |-> <<>>]

\* the threshold compared against the mean of the last member instead of the first
OpensNewSetLast(libs, d) ==
    \/ libs = <<>>
    \/ 2 * d.ismedian > 3 * Unit * libs[Len(libs)].libIS[Len(libs[Len(libs)].libIS)]

\* not libraries or ismedian > 1.5*libraries[-1][4][0]
OpensNewSet(libs, d) ==
    \/ libs = <<>>
    \/ 2 * d.ismedian > 3 * Unit * libs[Len(libs)].libIS[1]

\* stdfrac without the cap
StdFracRaw(d) == <<d.isstd, d.ismean>>

\* stdfrac = isstd / ismean, set to 1.0 when above 1
StdFrac(d) == IF d.isstd > d.ismean THEN <<1, 1>> ELSE <<d.isstd, d.ismean>>

\* stdfrac > 0.66
HighlyVariable(d) == 100 * d.isstd > 66 * d.ismean

\* one dataset appended to a library set
Appended(set, d) ==
    [libnames   |-> Append(set.libnames, Len(set.libnames) + 1),
     libFs      |-> Append(set.libFs, d.fq),
     libRs      |-> Append(set.libRs, d.fq),
     orients    |-> Append(set.orients, MajorOrientation(d.pairs)),
     libIS      |-> Append(set.libIS, IntOf(d.ismean)),
     libISStDev |-> Append(set.libISStDev, StdFrac(d))]

\* one pass of the loop body of get_libraries
AddDataset(libs, d) ==
    IF OpensNewSet(libs, d)
    THEN Append(libs, Appended(EmptySet, d))
    ELSE [libs EXCEPT ![Len(libs)] = Appended(libs[Len(libs)], d)]

RECURSIVE AddAll(_, _)
AddAll(libs, s) == IF s = <<>> THEN libs ELSE AddAll(AddDataset(libs, Head(s)), Tail(s))

\* the value get_libraries returns for the statistics libdata
GetLibraries(data) == AddAll(<<>>, ConsumeOrder(data))

(***************************************************************************)
(* What the statistics collaborator (fastq2insert_size) can report: one     *)
(* tuple (fq1, fq2, ismedian, ismean, isstd, pairs) per dataset that has     *)
(* aligned pairs, with a positive mean insert.                               *)
(***************************************************************************)
Stats(k, median, mean, std, p) ==
    [fq |-> k, ismedian |-> median, ismean |-> mean, isstd |-> std, pairs |-> p]

\* count vectors with at least one pair, and the two of the documented scenario
PairsInputs ==
    {p \in [1..4 -> 0..MaxCount] : SumSeq(p) > 0}
        \cup {<<5, 95, 0, 0>>, <<40, 40, 10, 10>>}

\* means 1.0, 1 + 1/Unit and 2 + 1/Unit; medians 1.0, 2.0 and 3 + 1/Unit
MeanValues == {Unit, Unit + 1, 2 * Unit + 1}
MedianValues == {Unit, 2 * Unit, 3 * Unit + 1}
\* standard deviations: none, below 0.66 of the mean 1.0, between, equal, above
StdValues == {0, 1, Unit - 1, Unit, 3 * Unit}
PairsSamples == {<<0, 9, 1, 0>>, <<3, 3, 1, 0>>, <<0, 0, 0, 2>>}

\* datasets that differ in median and mean
GroupingProfiles ==
    {Stats(0, md, mn, 1, <<0, 9, 1, 0>>) : md \in MedianValues, mn \in MeanValues}

\* datasets that differ in variability and orientation
VarianceProfiles ==
    {Stats(0, mn, mn, sd, p) : mn \in MeanValues, sd \in StdValues, p \in PairsSamples}

\* the datasets are numbered in input order
Numbered(f) == [k \in DOMAIN f |-> [f[k] EXCEPT !.fq = k]]

\* the documented scenario: means 300, 305 and 1200, each median either the
\* mean itself or 400
ScenarioMeans == <<300 * Unit, 305 * Unit, 1200 * Unit>>
ScenarioInputs ==
    {[k \in 1..3 |-> Stats(k, md[k], ScenarioMeans[k], Unit, <<5, 95, 0, 0>>)] :
        md \in {m \in [1..3 -> {400 * Unit} \cup {ScenarioMeans[k] : k \in 1..3}] :
                   \A k \in 1..3 : m[k] \in {ScenarioMeans[k], 400 * Unit}}}

LibInputs ==
    UNION {{Numbered(f) : f \in [1..n -> GroupingProfiles]} : n \in 1..MaxDatasets}
        \cup UNION {{Numbered(f) : f \in [1..n -> VarianceProfiles]} : n \in 1..2}
        \cup ScenarioInputs

(***************************************************************************)
(* Files and symbolic links.  A path is <<name, i, j>>; a file's entry      *)
(* points to itself, so the path a name resolves to identifies its content. *)
(***************************************************************************)
fasta == <<"fasta", 0, 0>>
contigsFname == <<"contigs.fa", 0, 0>>
reducedFname == <<"contigs.reduced.fa", 0, 0>>
scaffoldsFname == <<"scaffolds.fa", 0, 0>>
nogapsFname == <<"scaffolds.filled.fa", 0, 0>>
NoFile == <<"", 0, 0>>
NoSet == <<>>

\* an entry also keeps its place in the order in which the entries were made
InitialFs == [n \in {fasta} |-> [link |-> FALSE, to |-> fasta, order |-> 0]]

\* os.path.isfile follows links: the file a path resolves to, NoFile when
\* the path does not exist or the chain of links ends nowhere
RECURSIVE Resolve(_, _)
Resolve(f, n) ==
    IF n \notin DOMAIN f THEN NoFile
    ELSE IF f[n].link THEN Resolve(f, f[n].to)
    ELSE n

IsFile(f, n) == Resolve(f, n) # NoFile

\* a file created or truncated at path n (open(n, "w"), or a program's output)
WriteFile(f, n) ==
    [m \in DOMAIN f \cup {n} |->
        IF m = n THEN [link |-> FALSE, to |-> n, order |-> Cardinality(DOMAIN f)] ELSE f[m]]

\* os.symlink(target, n)
MakeLink(f, target, n) ==
    [m \in DOMAIN f \cup {n} |->
        IF m = n THEN [link |-> TRUE, to |-> target, order |-> Cardinality(DOMAIN f)] ELSE f[m]]

\* The run's paths are written relative to the working directory (outdir is
\* "redundans" by default); only targetout (line 129) is written relative to
\* outdir.  AbsPath is os.path.join(os.path.realpath(os.path.curdir), file1);
\* InLinkDir is what the same text means as the target of a link in outdir.
TargetOut(a, b) == <<"targetout", a, b>>
AbsPath(n) == IF n[1] = "targetout" THEN <<"cwd/targetout", n[2], n[3]>> ELSE n
InLinkDir(n) ==
    IF n[1] = "targetout" THEN <<"_sspace.final.scaffolds.fasta", n[2], n[3]>>
    ELSE IF n = fasta THEN fasta
    ELSE <<"outdir/outdir", n[2], n[3]>>

\* a copy instead of a link
SymlinkCopies(f, file1, file2) ==
    IF IsFile(f, file2) THEN f ELSE WriteFile(f, file2)

\* symlink(file1, file2), lines 25-34
Symlink(f, file1, file2) ==
    IF IsFile(f, file2) THEN f
    ELSE IF IsFile(f, AbsPath(file1)) THEN MakeLink(f, AbsPath(file1), file2)
    ELSE MakeLink(f, InLinkDir(file1), file2)

\* the intermediate files of the two loops
SspaceFa(a, b) == <<"_sspace.fa", a, b>>
FinalScaffolds(a, b) == <<"_sspace.final.scaffolds.fasta", a, b>>
GapcloserFa(a, b) == <<"_gapcloser.fa", a, b>>
GapcloserConf(a) == <<"_gapcloser.conf", a, 0>>
\* _gapcloser.<rank in the set>.<name of the dataset>.fq
GapcloserFq(k, d) == <<"_gapcloser.fq", k, d>>

\* one invocation of a collaborator or of an external program
Call(tool, input, output, rc) ==
    [tool |-> tool, input |-> input, output |-> output, rc |-> rc]

\* "%s" % n: the decimal digits of n
RECURSIVE Digits(_)
Digits(n) == IF n < 10 THEN <<n>> ELSE Append(Digits(n \div 10), n % 10)

\* The characters in which the names _sspace.<i>.<j>.fa (and likewise
\* _gapcloser.<i>.<j>.fa) differ: the digits of i, a dot, the digits of j, a
\* dot.  A dot is written -1, as it sorts before every digit.
NameKey(n) == Digits(n[2]) \o <<-1>> \o Digits(n[3]) \o <<-1>>

\* the order of strings: a < b, character by character
RECURSIVE LexLess(_, _)
LexLess(a, b) ==
    IF a = <<>> THEN b # <<>>
    ELSE IF b = <<>> THEN FALSE
    ELSE IF Head(a) # Head(b) THEN Head(a) < Head(b)
    ELSE LexLess(Tail(a), Tail(b))

\* sorted(glob.glob(...)): the paths named kind that exist, in the order of
\* their names as strings
RECURSIVE SortedPaths(_)
SortedPaths(S) ==
    IF S = {} THEN <<>>
    ELSE LET first == CHOOSE n \in S : \A m \in S \ {n} :
                          LexLess(NameKey(n), NameKey(m))
         IN  <<first>> \o SortedPaths(S \ {first})

Glob(f, kind) == SortedPaths({n \in DOMAIN f : n[1] = kind})

\* lines 312-316
Fastas(f) ==
    <<contigsFname, reducedFname>> \o Glob(f, "_sspace.fa") \o <<scaffoldsFname>>
        \o Glob(f, "_gapcloser.fa") \o <<nogapsFname>>

(***************************************************************************)
(* The answers of the statistics collaborator in a pipeline run: a dataset  *)
(* is short (median and mean 1.0) or long (median 2.0, mean 2 + 1/Unit),     *)
(* mostly FR or mostly RR, or has no aligned pair and is not reported.       *)
(***************************************************************************)
NoPairs == Stats(0, 0, 0, 0, <<0, 0, 0, 0>>)

PipelineProfiles ==
    {Stats(0, Unit, Unit, 1, <<0, 9, 1, 0>>),
     Stats(0, 2 * Unit, 2 * Unit + 1, 1, <<0, 9, 1, 0>>),
     Stats(0, 2 * Unit, 2 * Unit + 1, 1, <<0, 0, 0, 2>>)}

PipelineStats ==
    {SelectSeq(Numbered(f), LAMBDA d : SumSeq(d.pairs) > 0) :
        f \in [1..NumDatasets -> PipelineProfiles \cup {NoPairs}]}

\* the state of the pipeline while only a function of the classifier runs
PipelineIdle ==
    /\ opts = [reduction |-> FALSE, scaffolding |-> FALSE, gapclosing |-> FALSE,
               iters |-> 0, exists |-> FALSE]
    /\ outdir = FALSE
    /\ fs = InitialFs
    /\ i = 0
    /\ j = 0
    /\ pout = NoFile
    /\ curset = NoSet
    /\ called = 0
    /\ calls = <<>>
    /\ exitCode = -1
    /\ reported = <<>>
    /\ scaffolded = {}
    /\ tail = <<>>

\* the state of prepare_gapcloser and get_read_limit while they are not run
\* on their own
PrepareIdle ==
    /\ gaplibs = <<>>
    /\ verbose = FALSE
    /\ rank = 0
    /\ config = <<>>
    /\ diag = {}

LimitIdle ==
    /\ readLimit = 0
    /\ fastaSize = 0
    /\ limit = 0
    /\ getlibs = 0
    /\ caps = <<>>

UnitIdle == PrepareIdle /\ LimitIdle

(***************************************************************************)
(* get_orientation, applied to one count vector.                            *)
(***************************************************************************)
InitOrientation ==
    /\ pc = "get_orientation"
    /\ pairs \in PairsInputs
    /\ orientation = "none"
    /\ warned = FALSE
    /\ libdata = <<>>
    /\ todo = <<>>
    /\ libraries = <<>>
    /\ varwarn = {}
    /\ PipelineIdle
    /\ UnitIdle

GetOrientation ==
    /\ pc = "get_orientation"
    /\ orientation' = MajorOrientation(pairs)
    /\ warned' = PoorQuality(pairs)
    /\ pc' = "orientation_returned"
    /\ UNCHANGED <<pairs, libdata, todo, libraries, varwarn, pipeVars, unitVars>>

NextOrientation == GetOrientation

SpecOrientation == InitOrientation /\ [][NextOrientation]_vars

(***************************************************************************)
(* get_libraries, applied to one answer of the statistics collaborator.     *)
(***************************************************************************)
InitLibraries ==
    /\ pc = "get_libraries"
    /\ libdata \in LibInputs
    /\ todo = <<>>
    /\ libraries = <<>>
    /\ varwarn = {}
    /\ pairs = <<>>
    /\ orientation = "none"
    /\ warned = FALSE
    /\ PipelineIdle
    /\ UnitIdle

\* line 63-65: libraries = [], and the sorted list the loop runs over
LibSort ==
    /\ pc = "get_libraries"
    /\ todo' = ConsumeOrder(libdata)
    /\ libraries' = <<>>
    /\ pc' = "lib_loop"
    /\ UNCHANGED <<pairs, orientation, warned, libdata, varwarn, pipeVars, unitVars>>

\* line 65-89: one pass of the loop body
LibStep ==
    /\ pc = "lib_loop"
    /\ todo # <<>>
    /\ libraries' = AddDataset(libraries, Head(todo))
    /\ varwarn' = IF HighlyVariable(Head(todo)) THEN varwarn \cup {Head(todo).fq} ELSE varwarn
    /\ pairs' = Head(todo).pairs
    /\ orientation' = MajorOrientation(Head(todo).pairs)
    /\ warned' = PoorQuality(Head(todo).pairs)
    /\ todo' = Tail(todo)
    /\ UNCHANGED <<pc, libdata, pipeVars, unitVars>>

\* line 90
LibReturn ==
    /\ pc = "lib_loop"
    /\ todo = <<>>
    /\ pc' = "libraries_returned"
    /\ UNCHANGED <<libraries, classVars, pipeVars, unitVars>>

NextLibraries == LibSort \/ LibStep \/ LibReturn

SpecLibraries == InitLibraries /\ [][NextLibraries]_vars

ClassifierIdle ==
    /\ pairs = <<>>
    /\ orientation = "none"
    /\ warned = FALSE
    /\ libdata = <<>>
    /\ todo = <<>>
    /\ varwarn = {}

(***************************************************************************)
(* prepare_gapcloser, applied to the libraries of one library set.  A       *)
(* library is its orientation and its insert size; a block of the config is *)
(* the avg_ins, reverse_seq and rank it was formatted with.                 *)
(***************************************************************************)
GapLib(o, size) == [orient |-> o, iSize |-> size]

GapLibKinds == {GapLib(orientations[k], size) : k \in 1..4, size \in {300, 1200}}

GapLibInputs == UNION {[1..n -> GapLibKinds] : n \in 1..MaxDatasets}

\* lines 162-165
ReverseSeq(o) == IF o = "FR" THEN 0 ELSE 1

\* line 174: lines%(iSize, reverse_seq, i, fn1, fn2)
Block(size, rs, r) == [avg_ins |-> size, reverse_seq |-> rs, rank |-> r]

InitPrepare ==
    /\ pc = "prepare_gapcloser"
    /\ gaplibs \in GapLibInputs
    /\ verbose \in BOOLEAN
    /\ rank = 0
    /\ config = <<>>
    /\ diag = {}
    /\ libraries = <<>>
    /\ ClassifierIdle
    /\ PipelineIdle
    /\ LimitIdle

\* lines 158-170: the next library is neither FR nor RF; the diagnostic is
\* written when verbose is set, and the loop continues
PrepareSkip ==
    /\ pc = "prepare_gapcloser"
    /\ rank < Len(gaplibs)
    /\ gaplibs[rank + 1].orient \notin {"FR", "RF"}
    /\ diag' = IF verbose THEN diag \cup {rank + 1} ELSE diag
    /\ rank' = rank + 1
    /\ UNCHANGED <<pc, libraries, classVars, pipeVars, gaplibs, verbose, config,
                   readLimit, fastaSize, limit, getlibs, caps>>

\* lines 158-174: the next library is FR or RF, its reads are filtered and
\* its block is appended.  filter_paired is this repository's read filter;
\* this is the behaviour with the name bound to it.
PrepareFilter ==
    /\ pc = "prepare_gapcloser"
    /\ rank < Len(gaplibs)
    /\ gaplibs[rank + 1].orient \in {"FR", "RF"}
    /\ config' = Append(config, Block(gaplibs[rank + 1].iSize,
                                      ReverseSeq(gaplibs[rank + 1].orient), rank + 1))
    /\ rank' = rank + 1
    /\ UNCHANGED <<pc, libraries, classVars, pipeVars, gaplibs, verbose, diag,
                   readLimit, fastaSize, limit, getlibs, caps>>

\* lines 158-172 and 138-148: the next library is FR or RF; filter_paired is
\* neither defined nor imported, so as the file stands line 148 raises
\* NameError, which prepare_gapcloser does not catch
PrepareNameError ==
    /\ pc = "prepare_gapcloser"
    /\ rank < Len(gaplibs)
    /\ gaplibs[rank + 1].orient \in {"FR", "RF"}
    /\ rank' = rank + 1
    /\ pc' = "crashed"
    /\ UNCHANGED <<libraries, classVars, pipeVars, gaplibs, verbose, config, diag,
                   readLimit, fastaSize, limit, getlibs, caps>>

\* lines 176-180: some block was appended; the config is written and True
\* is returned
PrepareWrite ==
    /\ pc = "prepare_gapcloser"
    /\ rank = Len(gaplibs)
    /\ config # <<>>
    /\ pc' = "prepare_true"
    /\ UNCHANGED <<libraries, classVars, pipeVars, unitVars>>

\* lines 176-180: no block was appended; nothing is written and the function
\* ends without a return value
PrepareNone ==
    /\ pc = "prepare_gapcloser"
    /\ rank = Len(gaplibs)
    /\ config = <<>>
    /\ pc' = "prepare_none"
    /\ UNCHANGED <<libraries, classVars, pipeVars, unitVars>>

NextPrepare ==
    \/ PrepareSkip
    \/ PrepareFilter
    \/ PrepareNameError
    \/ PrepareWrite
    \/ PrepareNone

SpecPrepare == InitPrepare /\ [][NextPrepare]_vars

(***************************************************************************)
(* get_read_limit and the cap get_libraries hands to the statistics         *)
(* collaborator.  readLimit is counted in tenths; int() truncates, and the   *)
(* division of line 60 is the integer division of the two integers.          *)
(***************************************************************************)
\* line 55: 10e5
MinLimit == 1000000

\* line 60: limit/100
StatsShare == 100

\* the assembly sizes tried (column 3 of fasta_stats)
FastaSizes == {1, 1000, 4999999, 5000000, 12345678, 100000000}

\* lines 95-99: limit = 0, or int(readLimit * fastaSize) when readLimit is set
ReadLimitOf(rl, size) == IF rl = 0 THEN 0 ELSE (rl * size) \div 10

\* lines 55-56
FlooredLimit(l) == IF l = 0 \/ l < MinLimit THEN MinLimit ELSE l

\* the limit itself, or the floor when there is none
CapWhole(l) == IF l = 0 THEN MinLimit ELSE l

\* lines 55-60: the cap fastq2insert_size is called with
CapOf(l) == FlooredLimit(l) \div StatsShare

InitLimit ==
    /\ pc = "read_limit"
    /\ readLimit \in 0..MaxTenths
    /\ fastaSize \in FastaSizes
    /\ limit = 0
    /\ getlibs = 0
    /\ caps = <<>>
    /\ libraries = <<>>
    /\ ClassifierIdle
    /\ PipelineIdle
    /\ PrepareIdle

\* lines 94-102
ReadLimit ==
    /\ pc = "read_limit"
    /\ limit' = ReadLimitOf(readLimit, fastaSize)
    /\ pc' = "limit_get_libraries"
    /\ UNCHANGED <<libraries, classVars, pipeVars, gaplibs, verbose, rank, config, diag,
                   readLimit, fastaSize, getlibs, caps>>

\* lines 104-105 and 55-60: get_libraries is called with limit and calls
\* fastq2insert_size; get_read_limit returns limit as it computed it
LimitGetLibraries ==
    /\ pc = "limit_get_libraries"
    /\ getlibs' = getlibs + 1
    /\ caps' = Append(caps, CapOf(limit))
    /\ pc' = "limit_returned"
    /\ UNCHANGED <<libraries, classVars, pipeVars, gaplibs, verbose, rank, config, diag,
                   readLimit, fastaSize, limit>>

\* lines 132 and 55-60: run_scaffolding calls get_libraries with the same
\* limit once per library set it went through, NumDatasets times at most
ScaffoldingGetLibraries ==
    /\ pc = "limit_returned"
    /\ getlibs <= NumDatasets
    /\ getlibs' = getlibs + 1
    /\ caps' = Append(caps, CapOf(limit))
    /\ UNCHANGED <<pc, libraries, classVars, pipeVars, gaplibs, verbose, rank, config,
                   diag, readLimit, fastaSize, limit>>

NextLimit == ReadLimit \/ LimitGetLibraries \/ ScaffoldingGetLibraries

SpecLimit == InitLimit /\ [][NextLimit]_vars

(***************************************************************************)
(* redundants: one run of the pipeline.                                     *)
(***************************************************************************)

\* the options of a run: every combination with a small --iters, and a run
\* of the scaffolding stage alone with many iterations
RunOptions ==
    [reduction : BOOLEAN, scaffolding : BOOLEAN, gapclosing : BOOLEAN,
     iters : 0..MaxIters, exists : BOOLEAN]
        \cup {[reduction |-> FALSE, scaffolding |-> TRUE, gapclosing |-> FALSE,
               iters |-> ManyIters, exists |-> FALSE]}

Init ==
    /\ pc = "start"
    /\ opts \in RunOptions
    /\ outdir = opts.exists
    /\ fs = InitialFs
    /\ libraries = <<>>
    /\ i = 0
    /\ j = 0
    /\ pout = NoFile
    /\ curset = NoSet
    /\ called = 0
    /\ calls = <<>>
    /\ exitCode = -1
    /\ reported = <<>>
    /\ scaffolded = {}
    /\ tail = <<>>
    /\ ClassifierIdle
    /\ UnitIdle

\* lines 262-266 with outdir absent, and line 272
MakeOutdir ==
    /\ pc = "start"
    /\ ~outdir
    /\ outdir' = TRUE
    /\ fs' = Symlink(fs, fasta, contigsFname)
    /\ pc' = "get_read_limit"
    /\ UNCHANGED <<libraries, classVars, unitVars, histVars, opts, i, j, pout, curset,
                   called, calls, exitCode, reported>>

\* proceeds although outdir exists
OutdirExistsIgnored ==
    /\ pc = "start"
    /\ outdir
    /\ fs' = Symlink(fs, fasta, contigsFname)
    /\ pc' = "get_read_limit"
    /\ UNCHANGED <<libraries, classVars, unitVars, histVars, opts, outdir, i, j, pout,
                   curset, called, calls, exitCode, reported>>

\* lines 262-264: sys.exit(1)
OutdirExists ==
    /\ pc = "start"
    /\ outdir
    /\ exitCode' = 1
    /\ pc' = "exited"
    /\ UNCHANGED <<libraries, classVars, unitVars, histVars, opts, outdir, fs, i, j,
                   pout, curset, called, calls, reported>>

\* line 274: get_read_limit, which calls get_libraries on contigs.fa
GetReadLimit ==
    /\ pc = "get_read_limit"
    /\ \E data \in PipelineStats :
          /\ libraries' = GetLibraries(data)
          /\ calls' = Append(calls, Call("fastq2insert_size", contigsFname, NoFile, 0))
    /\ pc' = "reduction"
    /\ UNCHANGED <<classVars, unitVars, histVars, opts, outdir, fs, i, j, pout, curset,
                   called, exitCode, reported>>

\* lines 276-282: the reduced contigs are written to contigs.reduced.fa
Reduction ==
    /\ pc = "reduction"
    /\ opts.reduction
    /\ fs' = WriteFile(fs, reducedFname)
    /\ calls' = Append(calls, Call("fasta2homozygous", contigsFname, reducedFname, 0))
    /\ pc' = "scaffolding"
    /\ UNCHANGED <<libraries, classVars, unitVars, histVars, opts, outdir, i, j, pout,
                   curset, called, exitCode, reported>>

\* lines 283-284
ForwardReduced ==
    /\ pc = "reduction"
    /\ ~opts.reduction
    /\ fs' = Symlink(fs, contigsFname, reducedFname)
    /\ pc' = "scaffolding"
    /\ UNCHANGED <<libraries, classVars, unitVars, histVars, opts, outdir, i, j, pout,
                   curset, called, calls, exitCode, reported>>

\* lines 288-293 and 111-112: run_scaffolding is entered
StartScaffolding ==
    /\ pc = "scaffolding"
    /\ opts.scaffolding
    /\ pout' = reducedFname
    /\ i' = 0
    /\ called' = Len(libraries)
    /\ pc' = "scaffolding_while"
    /\ UNCHANGED <<libraries, classVars, unitVars, histVars, opts, outdir, fs, j,
                   curset, calls, exitCode, reported>>

\* lines 294-295
ForwardScaffolds ==
    /\ pc = "scaffolding"
    /\ ~opts.scaffolding
    /\ fs' = Symlink(fs, reducedFname, scaffoldsFname)
    /\ pc' = "gapclosing"
    /\ UNCHANGED <<libraries, classVars, unitVars, histVars, opts, outdir, i, j, pout,
                   curset, called, calls, exitCode, reported>>

\* lines 114-116: the set at index i of the current libraries is unpacked
ScaffoldingNextSet ==
    /\ pc = "scaffolding_while"
    /\ i < Len(libraries)
    /\ curset' = libraries[i + 1]
    /\ i' = i + 1
    /\ j' = 1
    /\ pc' = "scaffolding_for"
    /\ UNCHANGED <<libraries, classVars, unitVars, histVars, opts, outdir, fs, pout,
                   called, calls, exitCode, reported>>

\* the datasets of a library set
Members(set) == {set.libFs[k] : k \in DOMAIN set.libFs}

\* lines 117-130: one round; the scaffolder exits 0 and leaves its scaffolds
ScaffoldingRound ==
    /\ pc = "scaffolding_for"
    /\ j <= opts.iters
    /\ IsFile(fs, pout)
    /\ calls' = Append(calls, Call("fastq2sspace", pout, SspaceFa(i, j), 0))
    /\ fs' = Symlink(WriteFile(fs, FinalScaffolds(i, j)), TargetOut(i, j), SspaceFa(i, j))
    /\ pout' = SspaceFa(i, j)
    /\ j' = j + 1
    /\ UNCHANGED <<pc, libraries, classVars, unitVars, histVars, opts, outdir, i,
                   curset, called, exitCode, reported>>

\* lines 123-125: the scaffolder exits non-zero, which fastq2sspace takes as fatal
ScaffoldingRoundFails ==
    /\ pc = "scaffolding_for"
    /\ j <= opts.iters
    /\ IsFile(fs, pout)
    /\ calls' = Append(calls, Call("fastq2sspace", pout, SspaceFa(i, j), 1))
    /\ exitCode' = 1
    /\ pc' = "failed"
    /\ UNCHANGED <<libraries, classVars, unitVars, histVars, opts, outdir, fs, i, j,
                   pout, curset, called, reported>>

\* lines 131-132: the libraries are replaced by a new classification on pout.
\* The names unpacked at line 115 and j are not read again before they are
\* bound anew, so they are cleared here.  The rounds of the set are over: if
\* there was a round (j > 1), its datasets have been passed to the scaffolder.
Reclassify ==
    /\ pc = "scaffolding_for"
    /\ j > opts.iters
    /\ \E data \in PipelineStats :
          /\ libraries' = GetLibraries(data)
          /\ calls' = Append(calls, Call("fastq2insert_size", pout, NoFile, 0))
    /\ scaffolded' = IF j > 1 THEN scaffolded \cup Members(curset) ELSE scaffolded
    /\ curset' = NoSet
    /\ j' = 0
    /\ pc' = "scaffolding_while"
    /\ UNCHANGED <<classVars, unitVars, opts, outdir, fs, i, pout, called, exitCode,
                   reported, tail>>

\* lines 114 and 133-136: the loop ends and run_scaffolding returns; its
\* local names are gone
ScaffoldingReturn ==
    /\ pc = "scaffolding_while"
    /\ i >= Len(libraries)
    /\ fs' = Symlink(fs, pout, scaffoldsFname)
    /\ i' = 0
    /\ pout' = NoFile
    /\ scaffolded' = {}
    /\ pc' = "gapclosing"
    /\ UNCHANGED <<libraries, classVars, unitVars, opts, outdir, j, curset, called,
                   calls, exitCode, reported, tail>>

\* lines 300-304 and 186: run_gapclosing is entered
StartGapclosing ==
    /\ pc = "gapclosing"
    /\ opts.gapclosing /\ libraries # <<>>
    /\ pout' = scaffoldsFname
    /\ i' = 0
    /\ pc' = "gapclosing_for"
    /\ UNCHANGED <<libraries, classVars, unitVars, histVars, opts, outdir, fs, j,
                   curset, called, calls, exitCode, reported>>

\* lines 305-306
ForwardFilled ==
    /\ pc = "gapclosing"
    /\ ~(opts.gapclosing /\ libraries # <<>>)
    /\ fs' = Symlink(fs, scaffoldsFname, nogapsFname)
    /\ pc' = "report"
    /\ UNCHANGED <<libraries, classVars, unitVars, histVars, opts, outdir, i, j, pout,
                   curset, called, calls, exitCode, reported>>

\* every library is kept, whatever its orientation
EligibleAll(set) == DOMAIN set.orients

\* lines 162-170: the libraries of a set that prepare_gapcloser keeps
Eligible(set) == {k \in DOMAIN set.orients : set.orients[k] \in {"FR", "RF"}}

\* lines 188-194 and 153-180: no library of the next set is FR or RF, no
\* config is written and the set is skipped
GapclosingSkipSet ==
    /\ pc = "gapclosing_for"
    /\ i < Len(libraries)
    /\ Eligible(libraries[i + 1]) = {}
    /\ i' = i + 1
    /\ UNCHANGED <<pc, libraries, classVars, unitVars, histVars, opts, outdir, fs, j,
                   pout, curset, called, calls, exitCode, reported>>

\* lines 188-193, 171-180 and 138-151: the reads of every FR or RF library are
\* filtered and the config is written.  filter_paired is this repository's
\* read filter; this is the behaviour with the name bound to it.
PrepareGapcloser ==
    /\ pc = "gapclosing_for"
    /\ i < Len(libraries)
    /\ Eligible(libraries[i + 1]) # {}
    /\ curset' = libraries[i + 1]
    /\ i' = i + 1
    /\ j' = 1
    /\ fs' = [n \in DOMAIN fs \cup {GapcloserConf(i + 1)}
                      \cup {GapcloserFq(k, libraries[i + 1].libFs[k]) :
                                k \in Eligible(libraries[i + 1])} |->
                 IF n \in DOMAIN fs THEN fs[n]
                 ELSE [link |-> FALSE, to |-> n, order |-> Cardinality(DOMAIN fs)]]
    /\ calls' = Append(calls, Call("filter_paired", NoFile, GapcloserConf(i + 1), 0))
    /\ pc' = "gapclosing_rounds"
    /\ UNCHANGED <<libraries, classVars, unitVars, histVars, opts, outdir, pout,
                   called, exitCode, reported>>

\* lines 138-148: redundans.py neither defines nor imports filter_paired, so as
\* the file stands the call at line 148 raises NameError once the two output
\* files of the first FR or RF library are open; nothing catches it
FilterReadsNameError ==
    /\ pc = "gapclosing_for"
    /\ i < Len(libraries)
    /\ Eligible(libraries[i + 1]) # {}
    /\ curset' = libraries[i + 1]
    /\ i' = i + 1
    /\ LET k == CHOOSE k \in Eligible(libraries[i + 1]) :
                    \A l \in Eligible(libraries[i + 1]) : k <= l
       IN  fs' = WriteFile(fs, GapcloserFq(k, libraries[i + 1].libFs[k]))
    /\ exitCode' = 1
    /\ pc' = "crashed"
    /\ UNCHANGED <<libraries, classVars, unitVars, histVars, opts, outdir, j, pout,
                   called, calls, reported>>

\* lines 196-208: one round; GapCloser exits 0 and leaves its output
GapclosingRound ==
    /\ pc = "gapclosing_rounds"
    /\ j <= opts.iters
    /\ IsFile(fs, pout)
    /\ calls' = Append(calls, Call("GapCloser", pout, GapcloserFa(i, j), 0))
    /\ fs' = WriteFile(fs, GapcloserFa(i, j))
    /\ pout' = GapcloserFa(i, j)
    /\ j' = j + 1
    /\ UNCHANGED <<pc, libraries, classVars, unitVars, histVars, opts, outdir, i,
                   curset, called, exitCode, reported>>

\* lines 204-208: GapCloser exits non-zero and leaves no output; the value of
\* wait() is dropped and pout moves on to the file that is not there
GapclosingRoundFails ==
    /\ pc = "gapclosing_rounds"
    /\ j <= opts.iters
    /\ calls' = Append(calls, Call("GapCloser", pout, GapcloserFa(i, j), 1))
    /\ pout' = GapcloserFa(i, j)
    /\ j' = j + 1
    /\ UNCHANGED <<pc, libraries, classVars, unitVars, histVars, opts, outdir, fs, i,
                   curset, called, exitCode, reported>>

\* line 196: the rounds of the set are over
GapclosingNextSet ==
    /\ pc = "gapclosing_rounds"
    /\ j > opts.iters
    /\ curset' = NoSet
    /\ j' = 0
    /\ pc' = "gapclosing_for"
    /\ UNCHANGED <<libraries, classVars, unitVars, histVars, opts, outdir, fs, i, pout,
                   called, calls, exitCode, reported>>

\* lines 188 and 209-210: the loop ends and run_gapclosing returns; its
\* local names are gone
GapclosingReturn ==
    /\ pc = "gapclosing_for"
    /\ i >= Len(libraries)
    /\ fs' = Symlink(fs, pout, nogapsFname)
    /\ i' = 0
    /\ pout' = NoFile
    /\ pc' = "report"
    /\ UNCHANGED <<libraries, classVars, unitVars, histVars, opts, outdir, j, curset,
                   called, calls, exitCode, reported>>

\* lines 308-320: every file of the list is opened and its statistics reported
Report ==
    /\ pc = "report"
    /\ LET fastas == Fastas(fs)
       IN  /\ \A k \in DOMAIN fastas : IsFile(fs, fastas[k])
           /\ reported' = fastas
    /\ pc' = "done"
    /\ UNCHANGED <<libraries, classVars, unitVars, histVars, opts, outdir, fs, i, j,
                   pout, curset, called, calls, exitCode>>

\* lines 319-320: open(fn) raises IOError at the first name that resolves to
\* no file
ReportIOError ==
    /\ pc = "report"
    /\ LET fastas == Fastas(fs)
       IN  \E k \in DOMAIN fastas :
              /\ ~IsFile(fs, fastas[k])
              /\ \A l \in 1..(k - 1) : IsFile(fs, fastas[l])
              /\ reported' = SubSeq(fastas, 1, k - 1)
    /\ pc' = "ioerror"
    /\ UNCHANGED <<libraries, classVars, unitVars, histVars, opts, outdir, fs, i, j,
                   pout, curset, called, calls, exitCode>>

\* A SIGINT while the program waits for a collaborator or an external
\* program (lines 274, 281, 123, 132, 205): KeyboardInterrupt is raised there,
\* nothing below the main block catches it, and the locals of the functions
\* left are gone.  No handler removes or changes a file.
Interrupt ==
    /\ \/ pc \in {"get_read_limit", "scaffolding_for"}
       \/ pc = "reduction" /\ opts.reduction
       \/ pc = "gapclosing_rounds" /\ j <= opts.iters
    /\ i' = 0
    /\ j' = 0
    /\ pout' = NoFile
    /\ curset' = NoSet
    /\ scaffolded' = {}
    /\ pc' = "interrupted"
    /\ UNCHANGED <<libraries, classVars, unitVars, opts, outdir, fs, called, calls,
                   exitCode, reported, tail>>

\* the elapsed-time line is not written
ElapsedDropped(out) == out

\* lines 409-410
Elapsed(out) == Append(out, "#Time elapsed")

\* lines 399-401 and 409-410: main() returned; the end of the file is reached
\* and the interpreter exits with code 0
MainReturns ==
    /\ pc = "done"
    /\ exitCode = -1
    /\ tail' = Elapsed(<<>>)
    /\ exitCode' = 0
    /\ UNCHANGED <<pc, libraries, classVars, unitVars, opts, outdir, fs, i, j, pout,
                   curset, called, calls, reported, scaffolded>>

\* lines 402-403 and 409-410: the handler writes its line and falls through
\* to the end of the file; the interpreter exits with code 0
MainKeyboardInterrupt ==
    /\ pc = "interrupted"
    /\ exitCode = -1
    /\ tail' = Elapsed(<<"Ctrl-C pressed!">>)
    /\ exitCode' = 0
    /\ UNCHANGED <<pc, libraries, classVars, unitVars, opts, outdir, fs, i, j, pout,
                   curset, called, calls, reported, scaffolded>>

\* lines 404-405 and 409-410, likewise
MainIOError ==
    /\ pc = "ioerror"
    /\ exitCode = -1
    /\ tail' = Elapsed(<<"I/O error">>)
    /\ exitCode' = 0
    /\ UNCHANGED <<pc, libraries, classVars, unitVars, opts, outdir, fs, i, j, pout,
                   curset, called, calls, reported, scaffolded>>

Next ==
    \/ MakeOutdir
    \/ OutdirExists
    \/ GetReadLimit
    \/ Reduction
    \/ ForwardReduced
    \/ StartScaffolding
    \/ ForwardScaffolds
    \/ ScaffoldingNextSet
    \/ ScaffoldingRound
    \/ ScaffoldingRoundFails
    \/ Reclassify
    \/ ScaffoldingReturn
    \/ StartGapclosing
    \/ ForwardFilled
    \/ GapclosingSkipSet
    \/ PrepareGapcloser
    \/ FilterReadsNameError
    \/ GapclosingRound
    \/ GapclosingRoundFails
    \/ GapclosingNextSet
    \/ GapclosingReturn
    \/ Report
    \/ ReportIOError
    \/ Interrupt
    \/ MainReturns
    \/ MainKeyboardInterrupt
    \/ MainIOError

Spec == Init /\ [][Next]_vars

\* Once main() is left, by its return or by an exception the main block
\* catches, the interpreter goes on to the end of the file.
MainBlockEnd == MainReturns \/ MainKeyboardInterrupt \/ MainIOError

FairSpec == Spec /\ WF_vars(MainBlockEnd)

(***************************************************************************)
(* Properties of get_libraries (under SpecLibraries).                       *)
(***************************************************************************)
Returned == pc = "libraries_returned"

\* the places <<set, member>> of the library sets
Places == UNION {{<<a, k>> : k \in DOMAIN libraries[a].libFs} : a \in DOMAIN libraries}

\* the datasets of the library sets, set after set
RECURSIVE Flat(_)
Flat(libs) == IF libs = <<>> THEN <<>> ELSE Head(libs).libFs \o Flat(Tail(libs))

\* the library sets as lists of datasets
Grouping == [a \in DOMAIN libraries |-> libraries[a].libFs]

\* C1: when get_libraries returns, every dataset the statistics collaborator
\* reported is at exactly one place of exactly one library set, every member
\* of a set is such a dataset, no set is empty, and the mean inserts of the
\* first members ascend from set to set.
C1_Partition ==
    Returned =>
        /\ \A d \in DOMAIN libdata :
              Cardinality({pl \in Places : libraries[pl[1]].libFs[pl[2]] = libdata[d].fq}) = 1
        /\ \A pl \in Places : \E d \in DOMAIN libdata :
              libraries[pl[1]].libFs[pl[2]] = libdata[d].fq
        /\ \A a \in DOMAIN libraries : libraries[a].libFs # <<>>
        /\ \A a \in DOMAIN libraries : a > 1 =>
              libraries[a - 1].libIS[1] <= libraries[a].libIS[1]

\* C1 witness: a returned classification of datasets given out of order, with
\* two sets or more, one of them with two members or more
C1_Witness ==
    /\ Returned
    /\ Len(libraries) >= 2
    /\ \E a \in DOMAIN libraries : Len(libraries[a].libFs) >= 2
    /\ \E a, b \in DOMAIN libdata : a < b /\ libdata[a].ismean > libdata[b].ismean

\* The grouping rule: at every point of the loop, the datasets consumed so far
\* followed by those still to come are all the datasets in ascending order of
\* mean, equal means in input order; a dataset is the first of its set exactly
\* when it is the first of all or its median is above 1.5 times the first
\* recorded mean of the set opened before it, and a dataset that is not first
\* has a median of at most 1.5 times the first recorded mean of its own set;
\* the first recorded mean of a set is int(mean) of its first dataset.
GroupingRule ==
    pc \in {"lib_loop", "libraries_returned"} =>
        LET order == Flat(libraries) \o [k \in DOMAIN todo |-> todo[k].fq]
        IN  /\ Len(order) = Len(libdata)
            /\ \A a, b \in DOMAIN order : a < b =>
                  \/ libdata[order[a]].ismean < libdata[order[b]].ismean
                  \/ /\ libdata[order[a]].ismean = libdata[order[b]].ismean
                     /\ order[a] < order[b]
            /\ \A pl \in Places :
                  LET a == pl[1]
                      d == libdata[libraries[a].libFs[pl[2]]]
                  IN  /\ pl[2] = 1 =>
                            libraries[a].libIS[1] * Unit <= d.ismean
                              /\ d.ismean < (libraries[a].libIS[1] + 1) * Unit
                      /\ (pl[2] = 1 /\ a > 1) =>
                            2 * d.ismedian > 3 * Unit * libraries[a - 1].libIS[1]
                      /\ pl[2] > 1 =>
                            2 * d.ismedian <= 3 * Unit * libraries[a].libIS[1]

ScenarioMeansGiven ==
    /\ Len(libdata) = 3
    /\ \A k \in 1..3 : libdata[k].ismean = ScenarioMeans[k]

ScenarioMediansAreMeans == \A k \in DOMAIN libdata : libdata[k].ismedian = libdata[k].ismean

\* C2 as stated: the grouping rule, and datasets with means 300, 305 and 1200
\* are grouped as [{300, 305}, {1200}] (whatever their medians).
C2_Original ==
    /\ GroupingRule
    /\ (Returned /\ ScenarioMeansGiven) => Grouping = <<<<1, 2>>, <<3>>>>

\* C2 as amended: the grouping rule, and datasets with means 300, 305 and 1200
\* whose medians equal their means are grouped as [{300, 305}, {1200}].
C2_Amended ==
    /\ GroupingRule
    /\ (Returned /\ ScenarioMeansGiven /\ ScenarioMediansAreMeans) =>
            Grouping = <<<<1, 2>>, <<3>>>>

\* C2 witness: the scenario with medians equal to means has been classified
C2_Witness ==
    /\ Returned
    /\ ScenarioMeansGiven
    /\ ScenarioMediansAreMeans
    /\ Len(libraries) = 2

\* C3: every stdfrac stored in a library set is a fraction num/den with
\* 0 <= num <= den and den > 0, that is, a number in [0, 1].
C3_StdFracInRange ==
    \A pl \in Places :
        LET sf == libraries[pl[1]].libISStDev[pl[2]]
        IN  sf[2] > 0 /\ 0 <= sf[1] /\ sf[1] <= sf[2]

\* C3 witness: a dataset whose standard deviation is above its mean is stored
C3_Witness ==
    /\ Returned
    /\ \E pl \in Places :
          LET d == libdata[libraries[pl[1]].libFs[pl[2]]]
          IN  d.isstd > d.ismean /\ libraries[pl[1]].libISStDev[pl[2]] = <<1, 1>>

(***************************************************************************)
(* Properties of get_orientation (under SpecOrientation).                   *)
(***************************************************************************)
OrientationReturned == pc = "orientation_returned"

C5_WarningBelow90 ==
    /\ pc = "get_orientation" => ENABLED GetOrientation
    /\ OrientationReturned =>
          /\ \E k \in 1..4 :
                /\ orientation = orientations[k]
                /\ warned <=> (100 * pairs[k] < 90 * (pairs[1] + pairs[2] + pairs[3] + pairs[4]))
          /\ pairs = <<5, 95, 0, 0>> => (orientation = "FR" /\ ~warned)
          /\ pairs = <<40, 40, 10, 10>> => warned

\* C5 witness: the warning was written and an orientation was returned
C5_Witness ==
    /\ OrientationReturned
    /\ pairs = <<40, 40, 10, 10>>
    /\ warned
    /\ orientation = "FF"

(***************************************************************************)
(* Properties of the pipeline (under Spec).                                 *)
(***************************************************************************)
CallsOf(tools) == SelectSeq(calls, LAMBDA c : c.tool \in tools)

ContigsDone == pc \notin {"start", "exited", "interrupted"}
ReducedDone == pc \notin {"start", "exited", "get_read_limit", "reduction", "interrupted"}
ScaffoldsDone ==
    pc \in {"gapclosing", "gapclosing_for", "gapclosing_rounds", "crashed",
            "report", "done", "ioerror"}
FilledDone == pc \in {"report", "done", "ioerror"}

\* C6: when run_scaffolding, called with 2 library sets and iters = 2, has
\* returned, the scaffolder was invoked exactly 4 times, the first time on
\* contigs.reduced.fa and each later time on the output of the time before.
C6_FourInvocations ==
    (pc = "gapclosing" /\ opts.scaffolding /\ called = 2 /\ opts.iters = 2) =>
        LET sc == CallsOf({"fastq2sspace"})
        IN  /\ Len(sc) = 4
            /\ sc[1].input = reducedFname
            /\ \A k \in 2..4 : sc[k].input = sc[k - 1].output

\* C7: once a stage is finished or skipped, its canonical name resolves to a
\* file: the one the stage produced, or the one the previous stage's name
\* resolves to.
C7_CanonicalNamesResolve ==
    /\ ContigsDone => Resolve(fs, contigsFname) = fasta
    /\ ReducedDone =>
          /\ IsFile(fs, reducedFname)
          /\ Resolve(fs, reducedFname) \in {reducedFname, Resolve(fs, contigsFname)}
    /\ ScaffoldsDone =>
          /\ IsFile(fs, scaffoldsFname)
          /\ \/ Resolve(fs, scaffoldsFname)[1] = "_sspace.final.scaffolds.fasta"
             \/ Resolve(fs, scaffoldsFname) = Resolve(fs, reducedFname)
    /\ FilledDone =>
          /\ IsFile(fs, nogapsFname)
          /\ \/ Resolve(fs, nogapsFname)[1] = "_gapcloser.fa"
             \/ Resolve(fs, nogapsFname) = Resolve(fs, scaffoldsFname)

\* C8: past a disabled stage, the stage's canonical name is a link that
\* resolves to the file its input name resolves to, no collaborator of the
\* stage was invoked, and the stage left no file of its own.
C8_DisabledStageForwards ==
    /\ (ReducedDone /\ ~opts.reduction) =>
          /\ fs[reducedFname].link
          /\ IsFile(fs, reducedFname)
          /\ Resolve(fs, reducedFname) = Resolve(fs, contigsFname)
          /\ CallsOf({"fasta2homozygous"}) = <<>>
    /\ (ScaffoldsDone /\ ~opts.scaffolding) =>
          /\ fs[scaffoldsFname].link
          /\ IsFile(fs, scaffoldsFname)
          /\ Resolve(fs, scaffoldsFname) = Resolve(fs, reducedFname)
          /\ CallsOf({"fastq2sspace"}) = <<>>
          /\ Len(CallsOf({"fastq2insert_size"})) = 1
          /\ \A n \in DOMAIN fs : n[1] \notin {"_sspace.fa", "_sspace.final.scaffolds.fasta"}
    /\ (FilledDone /\ ~opts.gapclosing) =>
          /\ fs[nogapsFname].link
          /\ IsFile(fs, nogapsFname)
          /\ Resolve(fs, nogapsFname) = Resolve(fs, scaffoldsFname)
          /\ CallsOf({"GapCloser", "filter_paired"}) = <<>>
          /\ \A n \in DOMAIN fs : n[1] \notin {"_gapcloser.fa", "_gapcloser.conf", "_gapcloser.fq"}

\* C8 witness: a run with all three stages disabled has finished
C8_Witness ==
    /\ pc = "done"
    /\ ~opts.reduction /\ ~opts.scaffolding /\ ~opts.gapclosing
    /\ Resolve(fs, nogapsFname) = fasta

\* C9: a run started with outdir present never leaves the start except by
\* exiting with code 1, invokes nothing, reports nothing and leaves the files
\* and the directory as they were.
C9_ExistingOutdirFailsFast ==
    opts.exists =>
        /\ pc \in {"start", "exited"}
        /\ pc = "start" => ENABLED OutdirExists
        /\ pc = "exited" => exitCode = 1
        /\ fs = InitialFs
        /\ outdir
        /\ calls = <<>>
        /\ libraries = <<>>
        /\ reported = <<>>

\* C9 witness: a run started with outdir present has exited with code 1
C9_Witness ==
    /\ opts.exists
    /\ pc = "exited"
    /\ exitCode = 1

\* C10: a scaffolder or gap-filler invocation that exited non-zero is the last
\* invocation of the run, and the run is over.
C10_FailureIsFatal ==
    \A k \in DOMAIN calls :
        (calls[k].tool \in {"fastq2sspace", "GapCloser"} /\ calls[k].rc # 0) =>
            /\ k = Len(calls)
            /\ pc = "failed"

\* the assemblies of the run: the four canonical names and the outputs of
\* the scaffolding and gap-closing rounds
Artifacts ==
    {n \in DOMAIN fs : \/ n \in {contigsFname, reducedFname, scaffoldsFname, nogapsFname}
                       \/ n[1] \in {"_sspace.fa", "_gapcloser.fa"}}

RECURSIVE InCreationOrder(_)
InCreationOrder(S) ==
    IF S = {} THEN <<>>
    ELSE LET first == CHOOSE n \in S : \A m \in S : fs[n].order <= fs[m].order
         IN  <<first>> \o InCreationOrder(S \ {first})

\* C14: when the reporting stage is over, the statistics reported are those
\* of every assembly of the run, each once, in the order in which the
\* assemblies were created.
C14_ReportInCreationOrder == pc = "done" => reported = InCreationOrder(Artifacts)

\* whether some library of the library set at index a is FR or RF
HasSupported(a) == \E l \in DOMAIN libraries[a].orients : libraries[a].orients[l] \in {"FR", "RF"}

\* C16: the gap-filler is invoked only in a run with gap closing enabled and a
\* non-empty classification, and only for a library set that has an FR or RF
\* library and whose config was written; a set without such a library is
\* skipped without an error and without an invocation, leaving the current
\* assembly as it was; when every set was skipped, scaffolds.filled.fa
\* resolves to the file scaffolds.fa resolves to.
C16_GapFillerOnlyWithConfig ==
    /\ \A k \in DOMAIN calls : calls[k].tool = "GapCloser" =>
          /\ opts.gapclosing
          /\ libraries # <<>>
          /\ calls[k].output[2] \in DOMAIN libraries
          /\ HasSupported(calls[k].output[2])
          /\ GapcloserConf(calls[k].output[2]) \in DOMAIN fs
    /\ (pc = "gapclosing_for" /\ i < Len(libraries) /\ ~HasSupported(i + 1)) =>
            ENABLED GapclosingSkipSet
    /\ (pc = "gapclosing_for" /\ \A a \in 1..i : ~HasSupported(a)) =>
          /\ pout = scaffoldsFname
          /\ CallsOf({"GapCloser", "filter_paired"}) = <<>>
          /\ \A n \in DOMAIN fs : n[1] \notin {"_gapcloser.fa", "_gapcloser.conf"}
    /\ (FilledDone /\ opts.gapclosing /\ libraries # <<>>
            /\ \A a \in DOMAIN libraries : ~HasSupported(a)) =>
          /\ IsFile(fs, nogapsFname)
          /\ Resolve(fs, nogapsFname) = Resolve(fs, scaffoldsFname)
          /\ CallsOf({"GapCloser", "filter_paired"}) = <<>>

\* C16 witness: a run is over in which the gap-filler was invoked for one
\* library set and another library set, without an FR or RF library, was
\* skipped
C16_Witness ==
    /\ pc = "done"
    /\ \E a, b \in DOMAIN libraries :
          /\ ~HasSupported(a)
          /\ \A n \in DOMAIN fs : n[1] \in {"_gapcloser.fa", "_gapcloser.conf"} => n[2] # a
          /\ HasSupported(b)
          /\ \E k \in DOMAIN calls : calls[k].tool = "GapCloser" /\ calls[k].output[2] = b

\* C17: the scaffolder is invoked at most as many times as the number of
\* library sets run_scaffolding was called with, times --iters.
C17_BoundedInvocations ==
    opts.scaffolding => Len(CallsOf({"fastq2sspace"})) <= called * opts.iters

\* C18: no round of run_scaffolding passes to the scaffolder a dataset that
\* was passed to it in the rounds of an earlier library set.
C18_NoDatasetRevisited ==
    [][(ScaffoldingRound \/ ScaffoldingRoundFails) =>
            Members(curset) \cap scaffolded = {}]_vars

\* C20: when run_scaffolding, called with --iters of 1 or more and with every
\* dataset in a library set of its own, returns, every dataset has been
\* passed to the scaffolder in the rounds of some library set.
C20_EveryDatasetScaffolded ==
    [][(ScaffoldingReturn /\ opts.iters >= 1 /\ called = NumDatasets) =>
            scaffolded = 1..NumDatasets]_vars

Terminated == exitCode # -1

ElapsedLast == tail # <<>> /\ tail[Len(tail)] = "#Time elapsed"

\* C12 as stated: every execution that is over, whether it ended in success,
\* in an interruption or in a configuration error that exits with code 1,
\* has written the elapsed-time summary as its final output.
C12_Original == Terminated => ElapsedLast

\* C12 as amended: an execution in which main() returned, was interrupted or
\* raised an I/O error that the main block catches eventually ends with the
\* elapsed-time summary as its final output; an execution that ends in
\* sys.exit(1) for a configuration error writes no elapsed-time summary.
C12_Amended ==
    /\ [](pc = "exited" => (Terminated /\ tail = <<>>))
    /\ []((Terminated /\ pc \in {"done", "interrupted", "ioerror"}) => ElapsedLast)
    /\ (pc \in {"done", "interrupted", "ioerror"}) ~> (Terminated /\ ElapsedLast)

\* C12 witness: an interrupted run and a run that reached the end of main()
\* differ only in the handler's line; here an interrupted run is over with
\* the elapsed-time summary written last
C12_Witness ==
    /\ pc = "interrupted"
    /\ Terminated
    /\ tail = <<"Ctrl-C pressed!", "#Time elapsed">>

\* C13: a run interrupted while it waited is over only with the handler's
\* diagnostic and the elapsed-time report written, in this order, with a
\* non-zero exit code, and with the run directory and its files left in place.
C13_InterruptExitsNonZero ==
    (pc = "interrupted" /\ Terminated) =>
        /\ tail = <<"Ctrl-C pressed!", "#Time elapsed">>
        /\ exitCode # 0
        /\ outdir
        /\ contigsFname \in DOMAIN fs

(***************************************************************************)
(* Properties of prepare_gapcloser (under SpecPrepare).                     *)
(***************************************************************************)
PrepareOver == pc \in {"prepare_true", "prepare_none", "crashed"}

Supported == {k \in DOMAIN gaplibs : gaplibs[k].orient \in {"FR", "RF"}}

\* C11: every block of the config is the block of an FR library with
\* reverse_seq = 0 or of an RF library with reverse_seq = 1; a library of
\* another orientation is skipped without an error; when prepare_gapcloser
\* has returned, the FR and RF libraries have their blocks and a diagnostic
\* was written for every other library; for one FR and one RR library the
\* call returns with the config written, holding the FR block alone with
\* reverse_seq = 0, and with the diagnostic written for the RR library.
C11_BlocksForFRandRF ==
    /\ \A b \in DOMAIN config :
          \/ gaplibs[config[b].rank].orient = "FR" /\ config[b].reverse_seq = 0
          \/ gaplibs[config[b].rank].orient = "RF" /\ config[b].reverse_seq = 1
    /\ (pc = "prepare_gapcloser" /\ rank < Len(gaplibs) /\ rank + 1 \notin Supported) =>
            ENABLED PrepareSkip
    /\ pc \in {"prepare_true", "prepare_none"} =>
          /\ {config[b].rank : b \in DOMAIN config} = Supported
          /\ diag = DOMAIN gaplibs \ Supported
    /\ (PrepareOver /\ Len(gaplibs) = 2 /\ gaplibs[1].orient = "FR"
            /\ gaplibs[2].orient = "RR") =>
          /\ pc = "prepare_true"
          /\ config = <<Block(gaplibs[1].iSize, 0, 1)>>
          /\ diag = {2}

(***************************************************************************)
(* Properties of get_read_limit and get_libraries (under SpecLimit).        *)
(***************************************************************************)
\* int(readLimit * fastaSize)
Derived == (readLimit * fastaSize) \div 10

\* C19 as stated: every call of get_libraries has called the statistics
\* collaborator exactly once, with a cap that is the value derived from the
\* read-fraction limit and the assembly size when a limit is configured, and
\* a floor of at least 10^6 otherwise.
C19_Original ==
    /\ Len(caps) = getlibs
    /\ \A k \in DOMAIN caps :
          IF readLimit # 0 THEN caps[k] = Derived ELSE caps[k] >= 1000000

\* C19 as amended: every call of get_libraries has called the statistics
\* collaborator exactly once, with a cap that is one hundredth (rounded down)
\* of the derived value when that value is at least 10^6, and of 10^6 when it
\* is smaller or no limit is configured.
C19_Amended ==
    /\ Len(caps) = getlibs
    /\ \A k \in DOMAIN caps :
          LET whole == IF readLimit # 0 /\ Derived >= 1000000 THEN Derived ELSE 1000000
          IN  caps[k] * 100 <= whole /\ whole < (caps[k] + 1) * 100

\* C19 witness: get_libraries was called by get_read_limit and again by
\* run_scaffolding with a configured limit above 10^6 that is no multiple of
\* 100, and the collaborator got its hundredth both times
C19_Witness ==
    /\ pc = "limit_returned"
    /\ getlibs >= 2
    /\ readLimit # 0
    /\ limit > 1000000
    /\ limit % 100 # 0
    /\ Len(caps) = getlibs
    /\ caps[1] = caps[2]
    /\ caps[1] < limit

=============================================================================
